---- MODULE Spec2Model ----
(***************************************************************************)
(* The Django views of the customer-service chatbot (src/Chatbot/views.py) *)
(* with the chatlog model (src/Chatbot/models.py): module initialisation,  *)
(* the five request handlers, the session table and the browser's session  *)
(* cookie they work on, and the chatlog table the chatbot handler writes.  *)
(* The chatbot handler is cut at its two blocking calls (chat_response and *)
(* chatlog.save), so that concurrent requests interleave.                  *)
(***************************************************************************)
EXTENDS Integers, Sequences, FiniteSets, TLC

\* Bounds of the model.
MaxReq == 2        \* chatbot requests in one run
MaxKey == 3        \* session keys ever generated

Clients == {"c1", "c2"}               \* browsers
Usernames == {"alice"}                \* registered accounts
Prompts == {"p1", "p2"}               \* texts a browser may post as prompt
Forms == {[prompt |-> p] : p \in Prompts} \cup {[other |-> "x"]}   \* POST bodies
Times == {0, 1}                       \* readings of the wall clock
Methods == {"GET", "POST"}

None == "<None>"                      \* Python's None
PyFalse == "<False>"                  \* Python's False
AnonymousUser == ""                   \* AnonymousUser.username

VARIABLES
    loaded,                       \* views.py has been imported
    vector_store,                 \* module globals of views.py
    chatlog_collection,
    flagged_response_collection,
    django_session,               \* session table: session key -> username
    session_seq,                  \* number of the next fresh session key
    cookie,                       \* each browser's sessionid cookie
    chatlog_table,                \* rows of model chatlog, in insertion order
    chatlognr_seq,                \* the AutoField's sequence
    clock,                        \* the wall clock's latest reading (auto_now_add)
    requests,                     \* chatbot requests: locals and position
    calls,                        \* invocations of chat_response
    logged_in,                    \* history: browser's last login/logout POST
    login_nr                      \* history: successful logins per browser

vars == <<loaded, vector_store, chatlog_collection,
          flagged_response_collection, django_session, session_seq, cookie,
          chatlog_table, chatlognr_seq, clock, requests, calls,
          logged_in, login_nr>>

globals == <<vector_store, chatlog_collection,
             flagged_response_collection>>

----------------------------------------------------------------------------
\* Module initialisation (views.py 55-100, 213-215)

\* mongodb_collection: the collection, or False after logging the failure.
mongodb_collection(reachable) == IF reachable THEN "Collection" ELSE PyFalse

\* vector_search: wraps whatever mongodb_collection returned.
vector_search(reachable) ==
    [collection |-> mongodb_collection(reachable), index_name |-> "searchindex"]

\* Importing views.py runs lines 213-215 once. atlas_ok: the Atlas cluster of
\* ATLAS_CONNECTION_STRING answers server_info() while the module is imported.
module_load ==
    /\ ~loaded
    /\ \E atlas_ok \in BOOLEAN :
          /\ vector_store' = vector_search(atlas_ok)
          /\ chatlog_collection' = mongodb_collection(atlas_ok)
          /\ flagged_response_collection' = mongodb_collection(atlas_ok)
    /\ loaded' = TRUE
    /\ UNCHANGED <<django_session, session_seq, cookie, chatlog_table,
                   chatlognr_seq, clock, requests, calls, logged_in,
                   login_nr>>

----------------------------------------------------------------------------
\* Sessions and authentication (django.contrib.sessions / auth as the views use them)

session_key(n) == "k" \o ToString(n)

\* request.user.username: the user of the session the cookie names.
request_user(c) ==
    IF cookie[c] \in DOMAIN django_session THEN django_session[cookie[c]]
    ELSE AnonymousUser

\* A check that lets everybody in.
is_authenticated_always(c) == TRUE

is_authenticated(c) == request_user(c) # AnonymousUser

\* The cookie after a response of a request that loaded the session without
\* changing it: a cookie naming no session is deleted.
cookie_after_access(c) ==
    IF cookie[c] # None /\ cookie[c] \notin DOMAIN django_session
    THEN [cookie EXCEPT ![c] = None] ELSE cookie

\* authenticate(): the user, or None for wrong credentials.
authenticate(username, password_ok) == IF password_ok THEN username ELSE None

without(table, key) == [k \in DOMAIN table \ {key} |-> table[k]]

\* logout(request): session.flush() deletes the request's session row.
logout(table, c) == without(table, cookie[c])

----------------------------------------------------------------------------
\* The single-step handlers (views.py 249-284)

login_user(c) ==
    /\ loaded
    /\ IF is_authenticated(c)
       THEN UNCHANGED <<django_session, session_seq, cookie, logged_in, login_nr>>
       ELSE \E method \in Methods :
            IF method = "POST"
            THEN \E username \in Usernames, password_ok \in BOOLEAN :
                 IF authenticate(username, password_ok) # None
                 THEN \* login(): cycle_key() gives the session a fresh key
                      /\ session_seq <= MaxKey
                      /\ django_session' = without(django_session, cookie[c])
                                             @@ (session_key(session_seq) :> username)
                      /\ session_seq' = session_seq + 1
                      /\ cookie' = [cookie EXCEPT ![c] = session_key(session_seq)]
                      /\ logged_in' = [logged_in EXCEPT ![c] = TRUE]
                      /\ login_nr' = [login_nr EXCEPT ![c] = @ + 1]
                 ELSE /\ cookie' = cookie_after_access(c)
                      /\ UNCHANGED <<django_session, session_seq, logged_in, login_nr>>
            ELSE /\ cookie' = cookie_after_access(c)
                 /\ UNCHANGED <<django_session, session_seq, logged_in, login_nr>>
    /\ UNCHANGED <<loaded, globals, chatlog_table, chatlognr_seq, clock,
                   requests, calls>>

home_page ==
    /\ loaded
    /\ UNCHANGED <<loaded, globals, django_session, session_seq, cookie,
                   chatlog_table, chatlognr_seq, clock, requests, calls,
                   logged_in, login_nr>>

signup_user ==
    /\ loaded
    /\ UNCHANGED <<loaded, globals, django_session, session_seq, cookie,
                   chatlog_table, chatlognr_seq, clock, requests, calls,
                   logged_in, login_nr>>

signed(c) ==
    /\ loaded
    /\ \E method \in Methods :
        IF method = "POST"
        THEN /\ django_session' = logout(django_session, c)
             /\ cookie' = [cookie EXCEPT ![c] = None]
             /\ logged_in' = [logged_in EXCEPT ![c] = FALSE]
             /\ UNCHANGED login_nr
        ELSE /\ cookie' = cookie_after_access(c)
             /\ UNCHANGED <<django_session, logged_in, login_nr>>
    /\ UNCHANGED <<loaded, globals, session_seq, chatlog_table, chatlognr_seq,
                   clock, requests, calls>>

----------------------------------------------------------------------------
\* The chatbot handler (views.py 286-318)

\* What chat_response may do with a call for request r: answer {text, flagged},
\* each call with a text of its own, or raise.
chat_response_results(r) ==
    {[raised |-> FALSE, text |-> "answer" \o ToString(r)],
     [raised |-> TRUE, text |-> None]}

\* The session_id and username arguments chat_response is called with.
chat_response_session_id(r) == "test-session"
chat_response_username(r) == "testuser"

\* request.POST.get('prompt'): the field, or None when the form has none.
POST_get_prompt(form) == IF "prompt" \in DOMAIN form THEN form.prompt ELSE None

\* A handler that catches the exception, answers an apology and carries on.
after_chat_response_caught(req, res) ==
    [req EXCEPT !.pc = "save",
                !.chatbot_response = IF res.raised THEN "Sorry" ELSE res.text]

\* The request after chat_response: an exception leaves the view (nothing
\* catches it); otherwise chatbot_response = assistant_response['text'].
after_chat_response(req, res) ==
    IF res.raised
    THEN [req EXCEPT !.pc = "done", !.result = "raised_chat_response"]
    ELSE [req EXCEPT !.pc = "save", !.chatbot_response = res.text]

response_data(r) ==
    [user |-> requests[r].user_prompt, bot |-> requests[r].chatbot_response]

\* The AutoField's value for the next row.
AutoField_stuck(seq) == 1
AutoField(seq) == seq

\* The latest answer any request has received.
latest_response ==
    LET answered == {q \in DOMAIN requests : requests[q].chatbot_response # None}
    IN  requests[CHOOSE q \in answered : \A p \in answered : p <= q].chatbot_response

\* A row whose response is read from a variable all requests share.
new_chatlog_shared(r, now) ==
    [chatlognr |-> AutoField(chatlognr_seq),
     session_id |-> requests[r].session_id,
     username |-> requests[r].username,
     timestamp |-> now,
     prompt |-> requests[r].user_prompt,
     response |-> latest_response,
     rid |-> r]

\* chatlog(session_id=..., username=..., prompt=..., response=...) as saved:
\* the AutoField and auto_now_add fill chatlognr and timestamp. rid names the
\* request that wrote the row (history, not a column).
new_chatlog(r, now) ==
    [chatlognr |-> AutoField(chatlognr_seq),
     session_id |-> requests[r].session_id,
     username |-> requests[r].username,
     timestamp |-> now,
     prompt |-> requests[r].user_prompt,
     response |-> requests[r].chatbot_response,
     rid |-> r]

\* save() raises when the database is down or a TextField would be NULL.
save_ok(row, db_ok) ==
    /\ db_ok
    /\ row.session_id # None /\ row.username # None
    /\ row.prompt # None /\ row.response # None

\* A save() that inserts the row twice.
save_twice(table, row) == Append(Append(table, row), row)

\* A save() that writes over the rows already there.
save_over(table, row) == <<row>>

\* save() of a row without primary key: INSERT.
save(table, row) == Append(table, row)

finished(result) ==
    [client |-> None, pc |-> "done", was_logged_in |-> FALSE, login_nr |-> 0,
     posted |-> None, session_id |-> None, username |-> None,
     user_prompt |-> None, chatbot_response |-> None,
     response_data |-> None, result |-> result]

\* Lines 286-295: the authentication check, and for a POST the new session
\* and the locals. A GET by an authenticated user renders chatbot.html.
chatbot(c) ==
    /\ loaded
    /\ IF ~is_authenticated(c)
       THEN /\ Len(requests) < MaxReq
            /\ requests' = Append(requests,
                   [finished("redirect_login") EXCEPT
                       !.client = c, !.was_logged_in = logged_in[c],
                       !.login_nr = login_nr[c]])
            /\ cookie' = cookie_after_access(c)
            /\ UNCHANGED <<django_session, session_seq>>
       ELSE \E method \in Methods :
            IF method = "POST"
            THEN \* request.session.create(): a fresh key, the loaded data kept
                 /\ Len(requests) < MaxReq
                 /\ session_seq <= MaxKey
                 /\ \E form \in Forms :
                      requests' = Append(requests,
                        [finished(None) EXCEPT
                            !.client = c, !.pc = "chat_response",
                            !.was_logged_in = logged_in[c],
                            !.login_nr = login_nr[c],
                            !.posted = form,
                            !.session_id = session_key(session_seq),
                            !.username = request_user(c),
                            !.user_prompt = POST_get_prompt(form)])
                 /\ django_session' = django_session
                                    @@ (session_key(session_seq) :> request_user(c))
                 /\ session_seq' = session_seq + 1
                 /\ UNCHANGED cookie
            ELSE UNCHANGED <<requests, django_session, session_seq, cookie>>
    /\ UNCHANGED <<loaded, globals, chatlog_table, chatlognr_seq, clock, calls,
                   logged_in, login_nr>>

\* Lines 296-307: the call of chat_response and what the handler keeps of it.
chatbot_chat_response(r) ==
    /\ requests[r].pc = "chat_response"
    /\ \E res \in chat_response_results(r) :
        /\ calls' = calls \cup
               {[rid |-> r, session_id |-> chat_response_session_id(r),
                 username |-> chat_response_username(r),
                 query |-> requests[r].user_prompt,
                 raised |-> res.raised, text |-> res.text]}
        /\ requests' = [requests EXCEPT ![r] = after_chat_response(@, res)]
    /\ UNCHANGED <<loaded, globals, django_session, session_seq, cookie,
                   chatlog_table, chatlognr_seq, clock, logged_in, login_nr>>

\* Lines 308-317: response_data, new_chatlog.save() and JsonResponse; the
\* session middleware then saves the session the handler created and sends its
\* key as the cookie. An exception of save() leaves the view: no cookie is set.
chatbot_save(r) ==
    /\ requests[r].pc = "save"
    /\ \E db_ok \in BOOLEAN, now \in {t \in Times : t >= clock} :
        IF save_ok(new_chatlog(r, now), db_ok)
        THEN /\ chatlog_table' = save(chatlog_table, new_chatlog(r, now))
             /\ chatlognr_seq' = chatlognr_seq + 1
             /\ clock' = now
             /\ IF requests[r].session_id \in DOMAIN django_session
                THEN /\ requests' = [requests EXCEPT ![r].pc = "done",
                                         ![r].response_data = response_data(r),
                                         ![r].result = "json"]
                     /\ cookie' = [cookie EXCEPT ![requests[r].client] =
                                                    requests[r].session_id]
                ELSE /\ requests' = [requests EXCEPT ![r].pc = "done",
                                         ![r].response_data = response_data(r),
                                         ![r].result = "session_interrupted"]
                     /\ UNCHANGED cookie
        ELSE /\ requests' = [requests EXCEPT ![r].pc = "done",
                                 ![r].response_data = response_data(r),
                                 ![r].result = "raised_save"]
             /\ UNCHANGED <<chatlog_table, chatlognr_seq, clock, cookie>>
    /\ UNCHANGED <<loaded, globals, django_session, session_seq, calls,
                   logged_in, login_nr>>

----------------------------------------------------------------------------
Init ==
    /\ loaded = FALSE
    /\ vector_store = None
    /\ chatlog_collection = None
    /\ flagged_response_collection = None
    /\ django_session = << >>
    /\ session_seq = 1
    /\ cookie = [c \in Clients |-> None]
    /\ chatlog_table = << >>
    /\ chatlognr_seq = 1
    /\ clock = 0
    /\ requests = << >>
    /\ calls = {}
    /\ logged_in = [c \in Clients |-> FALSE]
    /\ login_nr = [c \in Clients |-> 0]

Next ==
    \/ module_load
    \/ home_page
    \/ signup_user
    \/ \E c \in Clients : login_user(c)
    \/ \E c \in Clients : signed(c)
    \/ \E c \in Clients : chatbot(c)
    \/ \E r \in DOMAIN requests : chatbot_chat_response(r)
    \/ \E r \in DOMAIN requests : chatbot_save(r)

Spec == Init /\ [][Next]_vars

\* A browser that waits for each response before its next request.
idle(c) == \A r \in DOMAIN requests : requests[r].client = c => requests[r].pc = "done"

NextSeq ==
    \/ module_load
    \/ home_page
    \/ signup_user
    \/ \E c \in Clients : idle(c) /\ login_user(c)
    \/ \E c \in Clients : idle(c) /\ signed(c)
    \/ \E c \in Clients : idle(c) /\ chatbot(c)
    \/ \E r \in DOMAIN requests : chatbot_chat_response(r)
    \/ \E r \in DOMAIN requests : chatbot_save(r)

SpecSeq == Init /\ [][NextSeq]_vars

----------------------------------------------------------------------------
\* Properties

entries_of(r) == {i \in 1..Len(chatlog_table) : chatlog_table[i].rid = r}
call_of(r) == {k \in calls : k.rid = r}
returned(r) == \E k \in call_of(r) : ~k.raised
failed(r) == \E k \in call_of(r) : k.raised

\* The turn went through the log write: the call returned, save() did not raise.
completed(r) ==
    /\ requests[r].pc = "done" /\ returned(r)
    /\ requests[r].result # "raised_save"

\* C1 as stated: every finished request whose chat_response call returned has
\* added exactly one row to the chat log.
C1_Original ==
    \A r \in DOMAIN requests :
        requests[r].pc = "done" /\ returned(r) => Cardinality(entries_of(r)) = 1

\* C1 amended: every finished request whose chat_response call returned and
\* whose save() did not raise has added exactly one row, and every other
\* request none (a request whose save() raised has added none); so the rows
\* are always as many as the turns completed through the log write, never two
\* for one turn.
C1_OneEntryPerCompletedTurn ==
    /\ \A r \in DOMAIN requests :
          Cardinality(entries_of(r)) = IF completed(r) THEN 1 ELSE 0
    /\ Len(chatlog_table) = Cardinality({r \in DOMAIN requests : completed(r)})

C1_Witness ==
    \E r, q \in DOMAIN requests :
        /\ requests[r].result = "json" /\ Cardinality(entries_of(r)) = 1
        /\ returned(q) /\ requests[q].result = "raised_save"
        /\ entries_of(q) = {}

\* C2: a request whose chat_response call raised has written no row, and a
\* row is written only after the call returned and the response payload was
\* built from it.
C2_NoEntryOnFailure ==
    /\ \A r \in DOMAIN requests : failed(r) => entries_of(r) = {}
    /\ \A i \in 1..Len(chatlog_table) :
          LET r == chatlog_table[i].rid
          IN  /\ returned(r)
              /\ requests[r].response_data
                    = [user |-> chatlog_table[i].prompt, bot |-> chatlog_table[i].response]

C2_Witness ==
    \E r \in DOMAIN requests :
        /\ failed(r) /\ requests[r].pc = "done" /\ entries_of(r) = {}
        /\ Len(chatlog_table) >= 1

\* C3 as stated: every finished chatbot request ended with the success payload
\* or a structured recoverable-error payload (or the redirect to login), never
\* with an exception leaving the handler.
C3_NoUnhandledFault ==
    \A r \in DOMAIN requests :
        requests[r].pc = "done"
            => requests[r].result \in {"json", "recoverable_error", "redirect_login"}

\* C4 as stated: two rows written for POSTs of the same browser within one
\* login, with no logout in between, carry the same session_id.
C4_SameSessionAcrossTurns ==
    \A i, j \in 1..Len(chatlog_table) :
        LET a == requests[chatlog_table[i].rid]
            b == requests[chatlog_table[j].rid]
        IN  (/\ a.client = b.client
             /\ a.was_logged_in /\ b.was_logged_in
             /\ a.login_nr = b.login_nr)
                => chatlog_table[i].session_id = chatlog_table[j].session_id

\* C5 as stated: the application never serves with vector_store,
\* chatlog_collection or flagged_response_collection built from a failed
\* connection; a failure at module load stops the start-up.
C5_StartupFailureIsFatal ==
    loaded => /\ vector_store.collection # PyFalse
              /\ chatlog_collection # PyFalse
              /\ flagged_response_collection # PyFalse

\* C6: no two rows share a chatlognr, and a row inserted later has a strictly
\* larger chatlognr than every row inserted before it.
C6_UniqueMonotonicId ==
    \A i, j \in 1..Len(chatlog_table) :
        i < j => chatlog_table[i].chatlognr < chatlog_table[j].chatlognr

C6_Witness ==
    \E i, j \in 1..Len(chatlog_table) :
        /\ i < j
        /\ chatlog_table[i].rid > chatlog_table[j].rid

\* C7: no step of any handler changes or removes a row that is in the chat
\* log: every step leaves the rows written so far in place, field by field.
C7_AppendOnly ==
    [][/\ Len(chatlog_table') >= Len(chatlog_table)
       /\ \A i \in 1..Len(chatlog_table) : chatlog_table'[i] = chatlog_table[i]]_vars

C7_Witness ==
    /\ Len(chatlog_table) >= 2
    /\ \E r \in DOMAIN requests :
          /\ requests[r].result = "json"
          /\ ~logged_in[requests[r].client]

\* C8: a request that answered with the success payload answered
\* {user: the prompt it was posted, bot: the text chat_response returned to
\* it}, and the row it wrote has that prompt and that response; every row
\* pairs the prompt and the answer of one and the same request.
C8_PromptResponsePairing ==
    /\ \A r \in DOMAIN requests :
          requests[r].result = "json" =>
              /\ "prompt" \in DOMAIN requests[r].posted
              /\ requests[r].response_data.user = requests[r].posted.prompt
              /\ \E k \in call_of(r) : requests[r].response_data.bot = k.text
              /\ \E i \in entries_of(r) :
                    /\ chatlog_table[i].prompt = requests[r].response_data.user
                    /\ chatlog_table[i].response = requests[r].response_data.bot
    /\ \A i \in 1..Len(chatlog_table) :
          \E k \in call_of(chatlog_table[i].rid) :
              /\ ~k.raised
              /\ k.query = chatlog_table[i].prompt
              /\ k.text = chatlog_table[i].response

C8_Witness ==
    \E r, q \in DOMAIN requests :
        /\ r < q
        /\ requests[r].result = "json" /\ requests[q].result = "json"
        /\ requests[r].posted # requests[q].posted
        /\ \E i \in entries_of(r), j \in entries_of(q) : j < i

\* C9 as stated: chat_response is called with the session_id and the username
\* of the requesting user, those recorded in the turn's row.
C9_OrchestratorGetsRequester ==
    \A k \in calls :
        /\ k.session_id = requests[k.rid].session_id
        /\ k.username = requests[k.rid].username

====
